---- MODULE Spec2Model ----
(***************************************************************************)
(* State-machine model of lib/features/overlays/Overlays.js: the overlay   *)
(* manager of a diagram (add / get / remove, the event-bus handlers and    *)
(* the debounced viewbox update).                                          *)
(*                                                                         *)
(* Conventions.  A JavaScript value that may be undefined is a sequence of *)
(* length 0 (undefined) or 1 (the value).  Zoom factors are in tenths      *)
(* (0.7 is 7, 5.0 is 50).  Overlay ids 'ov-<n>' are the number n.  Element *)
(* objects are numbered; two objects may carry the same id.  Time is in    *)
(* milliseconds.                                                           *)
(***************************************************************************)
EXTENDS Integers, Sequences, FiniteSets, TLC

VARIABLES
    idsCounter,         \* ids._counter of the module-wide IdGenerator
    heap,               \* the overlay objects the manager can reach, by reference
    overlays,           \* this._overlays: overlay id -> overlay reference
    overlayContainers,  \* this._overlayContainers: element id -> container
    overlayRoot,        \* this._overlayRoot: hidden flag and css transform
    timers,             \* pending trailing calls of the debounced update
    registry,           \* the element registry: element id -> element object
    elements,           \* the geometry of every element object
    config,             \* the config.overlays the manager was built with
    lastOp,             \* the call or event handled last, with its outcome
    quiet,              \* milliseconds since the last viewbox event (capped)
    issued,             \* the ids add has returned so far, in order
    lastViewbox,        \* viewbox of the last canvas.viewbox.changed event
    lastPass,           \* viewbox of the last _updateOverlayVisibilty pass
    passesSince,        \* visibility passes since the last viewbox event
    rootsSince,         \* _updateRoot calls since the last viewbox event
    burst,              \* viewbox events of the latest burst (capped)
    whilePending        \* ids added and ids removed while the trailing call
                        \* that is pending, or has just run, was pending

vars == <<idsCounter, heap, overlays, overlayContainers, overlayRoot, timers,
          registry, elements, config, lastOp, quiet, issued, lastViewbox,
          lastPass, passesSince, rootsSince, burst, whilePending>>

----------------------------------------------------------------------------
(* Bounds of the model *)

\* overlays that may be added in one behaviour of SpecLife
MaxIdsLife == 2

\* overlays that may be added in one behaviour of SpecOrder
MaxIdsOrder == 3

\* overlays that may be added in one behaviour of SpecView
MaxIdsView == 2

\* overlays that may be added in one behaviour of SpecGeom
MaxIdsGeom == 2

\* overlays that may be added in one behaviour of SpecShow
MaxIdsShow == 2

\* overlays that may be added in one behaviour of SpecPass
MaxIdsPass == 2

\* cap of the ghost counters passesSince, rootsSince and burst
MaxCount == 2

----------------------------------------------------------------------------
(* JavaScript values *)

Undefined == <<>>

Some(v) == <<v>>

IsDef(v) == v # <<>>

\* v || 0
OrZero(v) == IF IsDef(v) /\ v[1] # 0 THEN v[1] ELSE 0

\* a > b in JavaScript: false when either side is undefined
JsGt(a, b) == IsDef(a) /\ IsDef(b) /\ a[1] > b[1]

\* a < b in JavaScript: false when either side is undefined
JsLt(a, b) == IsDef(a) /\ IsDef(b) /\ a[1] < b[1]

Min2(a, b) == IF a < b THEN a ELSE b

Max2(a, b) == IF a > b THEN a ELSE b

\* Array.prototype.splice(idx, 1)
RemoveAt(s, idx) ==
    [i \in 1..(Len(s) - 1) |-> IF i < idx THEN s[i] ELSE s[i + 1]]

\* Array.prototype.indexOf, 1-based; 0 when absent
IndexOf(s, v) ==
    IF \E i \in 1..Len(s) : s[i] = v
    THEN CHOOSE i \in 1..Len(s) : s[i] = v /\ \A j \in 1..(i - 1) : s[j] # v
    ELSE 0

\* the elements of a sequence as a set
Range(s) == {s[i] : i \in 1..Len(s)}

\* an object without properties, as this._overlays = {}
EmptyMap == [k \in {} |-> 0]

\* object[key] = value
MapPut(m, key, value) ==
    [k \in DOMAIN m \cup {key} |-> IF k = key THEN value ELSE m[k]]

\* delete object[key]
MapDelete(m, key) == [k \in DOMAIN m \ {key} |-> m[k]]

----------------------------------------------------------------------------
(* Elements and the element registry *)

\* element objects: 1 and 2 are shapes that carry the same id, 3 is a
\* connection
ElemObjs == {1, 2, 3}

\* an object without an id property, as a caller may pass by mistake
PlainObj == 4

\* no object (undefined / null)
NoObj == 0

ElemIds == {"a", "b"}

\* element.id
ElementId(obj) ==
    CASE obj = 1 -> "a"
      [] obj = 2 -> "a"
      [] obj = 3 -> "b"
      [] OTHER -> ""

Shape(x, y, width, height) ==
    [x |-> x, y |-> y, width |-> width, height |-> height, waypoints |-> <<>>]

Connection(waypoints) ==
    [x |-> 0, y |-> 0, width |-> 0, height |-> 0, waypoints |-> waypoints]

Point(x, y) == [x |-> x, y |-> y]

ShapeSmall == Shape(10, 20, 100, 80)

ShapeLarge == Shape(30, 40, 120, 60)

ConnectionShort == Connection(<<Point(0, 10), Point(50, 40)>>)

ConnectionLong == Connection(<<Point(50, 10), Point(20, 40), Point(70, 0)>>)

\* the geometry the element objects start with
InitElements ==
    [o \in ElemObjs |->
        CASE o = 1 -> ShapeSmall
          [] o = 2 -> ShapeLarge
          [] OTHER -> ConnectionShort]

\* element.waypoints is truthy
HasWaypoints(e) == e.waypoints # <<>>

\* getBBox(element) of util/Elements for an element with waypoints: the min /
\* max reduction over the waypoints
GetBBox(e) ==
    LET xs == {e.waypoints[i].x : i \in 1..Len(e.waypoints)}
        ys == {e.waypoints[i].y : i \in 1..Len(e.waypoints)}
        minX == CHOOSE v \in xs : \A w \in xs : v <= w
        maxX == CHOOSE v \in xs : \A w \in xs : v >= w
        minY == CHOOSE v \in ys : \A w \in ys : v <= w
        maxY == CHOOSE v \in ys : \A w \in ys : v >= w
    IN  [x |-> minX, y |-> minY, width |-> maxX - minX, height |-> maxY - minY]

\* The arguments a caller passes as an element: an object, an id string or
\* nothing.
ObjArg(o) == [kind |-> "object", obj |-> o, str |-> ""]

StrArg(s) == [kind |-> "string", obj |-> NoObj, str |-> s]

AbsentArg == [kind |-> "absent", obj |-> NoObj, str |-> ""]

ElementArgs ==
    {ObjArg(o) : o \in ElemObjs \cup {PlainObj}}
        \cup {StrArg(s) : s \in ElemIds \cup {"zz"}}
        \cup {AbsentArg}

\* elementRegistry.get(idOrElement): the registered element of that id, or
\* undefined
RegistryGet(reg, arg) ==
    LET id == IF arg.kind = "object" THEN ElementId(arg.obj) ELSE arg.str
    IN  IF id \in DOMAIN reg THEN reg[id] ELSE NoObj

\* whether the element object is the one registered under its id
Registered(reg, obj) == ElementId(obj) \in DOMAIN reg /\ reg[ElementId(obj)] = obj

----------------------------------------------------------------------------
(* Overlays *)

ShowPolicy(trigger, minZoom, maxZoom) ==
    [trigger |-> trigger, minZoom |-> minZoom, maxZoom |-> maxZoom]

\* this._overlayDefaults.show
DefaultShow == ShowPolicy("automatic", Some(7), Some(50))

Position(l, t, r, b) == [left |-> l, top |-> t, right |-> r, bottom |-> b]

PosRight == Position(Undefined, Undefined, Some(10), Undefined)

PosBottom == Position(Some(-5), Undefined, Undefined, Some(20))

\* An overlay configuration a caller passes to add.  hasShow tells whether
\* the record has a show key at all; show is its value (undefined stands for
\* any falsy value); html tells whether overlay.html is truthy.
OverlayArg(position, html, hasShow, show) ==
    [position |-> position, html |-> html, hasShow |-> hasShow, show |-> show]

OvDefault == OverlayArg(Some(PosRight), TRUE, FALSE, Undefined)

OvAuto ==
    OverlayArg(Some(PosBottom), TRUE, TRUE,
               Some(ShowPolicy("automatic", Some(10), Some(20))))

OvManual ==
    OverlayArg(Some(PosRight), TRUE, TRUE,
               Some(ShowPolicy("manual", Some(20), Some(60))))

OvPartial ==
    OverlayArg(Some(PosBottom), TRUE, TRUE,
               Some(ShowPolicy("undefined", Some(10), Undefined)))

OvNoShow == OverlayArg(Some(PosRight), TRUE, TRUE, Undefined)

OvNoPosition == OverlayArg(Undefined, TRUE, FALSE, Undefined)

OvNoHtml == OverlayArg(Some(PosRight), FALSE, FALSE, Undefined)

OvNeither == OverlayArg(Undefined, FALSE, FALSE, Undefined)

\* a wrapper that has been deleted from its overlay (delete
\* overlay.htmlContainer)
NoHtmlContainer == [live |-> FALSE, hidden |-> FALSE, left |-> 0, top |-> 0]

\* a variant of the offsets that adds right and bottom to the size
OverlayOffsetsSum(position, e) ==
    LET width == IF HasWaypoints(e) THEN GetBBox(e).width ELSE e.width
        height == IF HasWaypoints(e) THEN GetBBox(e).height ELSE e.height
        left == IF IsDef(position.right)
                THEN Some(position.right[1] + width)
                ELSE position.left
        top == IF IsDef(position.bottom)
               THEN Some(position.bottom[1] + height)
               ELSE position.top
    IN  [left |-> OrZero(left), top |-> OrZero(top)]

\* _updateOverlay: the css offsets of the wrapper of an overlay at `position`
\* on an element of geometry e
OverlayOffsets(position, e) ==
    LET width == IF HasWaypoints(e) THEN GetBBox(e).width ELSE e.width
        height == IF HasWaypoints(e) THEN GetBBox(e).height ELSE e.height
        left == IF IsDef(position.right)
                THEN Some(position.right[1] * (-1) + width)
                ELSE position.left
        top == IF IsDef(position.bottom)
               THEN Some(position.bottom[1] * (-1) + height)
               ELSE position.top
    IN  [left |-> OrZero(left), top |-> OrZero(top)]

\* _updateOverlay(overlay) on the heap h
UpdateOverlay(h, els, ref) ==
    LET off == OverlayOffsets(h[ref].position, els[h[ref].element])
    IN  [h EXCEPT ![ref].htmlContainer.left = off.left,
                  ![ref].htmlContainer.top = off.top]

\* _updateOverlayContainer: the css anchor of the container of an element of
\* geometry e
ContainerAnchor(e) ==
    IF HasWaypoints(e)
    THEN [left |-> GetBBox(e).x, top |-> GetBBox(e).y]
    ELSE [left |-> e.x, top |-> e.y]

\* _updateOverlayContainer(container)
UpdateOverlayContainer(container, els) ==
    [container EXCEPT !.html.left = ContainerAnchor(els[container.element]).left,
                      !.html.top = ContainerAnchor(els[container.element]).top]

\* _createOverlayContainer(element)
CreateOverlayContainer(els, obj) ==
    UpdateOverlayContainer(
        [element |-> obj,
         html |-> [left |-> 0, top |-> 0, markers |-> {}],
         overlays |-> <<>>],
        els)

\* the key _getOverlayContainer looks under: (element && element.id) || element
ContainerKey(arg) ==
    IF arg.kind = "object" /\ ElementId(arg.obj) # "" THEN ElementId(arg.obj)
    ELSE IF arg.kind = "object" THEN "[object Object]"
    ELSE IF arg.kind = "string" THEN arg.str
    ELSE "undefined"

\* _getOverlayContainer(element, true): whether there is a container
HasContainer(cs, arg) == ContainerKey(arg) \in DOMAIN cs

\* _getOverlayContainer(element): the containers after the lookup, which
\* creates the container when there is none
GetOverlayContainer(cs, els, obj) ==
    IF ElementId(obj) \in DOMAIN cs
    THEN cs
    ELSE MapPut(cs, ElementId(obj), CreateOverlayContainer(els, obj))

----------------------------------------------------------------------------
(* get *)

\* a search record { id, element, type }; a bare id string is { id: <it> };
\* id 0 and type "" stand for a key that is absent
Search(id, element, type) == [id |-> id, element |-> element, type |-> type]

SearchById(id) == Search(id, AbsentArg, "")

\* search.element is truthy
SearchHasElement(search) == search.element.kind # "absent"

RECURSIVE SortedKeys(_)
\* the keys of this._overlays in enumeration order, which is the order of
\* their insertion: ascending ids
SortedKeys(keys) ==
    IF keys = {}
    THEN <<>>
    ELSE LET m == CHOOSE k \in keys : \A j \in keys : k <= j
         IN  <<m>> \o SortedKeys(keys \ {m})

\* filter(list, { type: type })
FilterByType(h, refs, type) ==
    LET Matches(r) == h[r].type = type
    IN  SelectSeq(refs, Matches)

\* whether get(search) answers with a list (search by element or by type)
GetIsList(search) == SearchHasElement(search) \/ search.type # ""

\* get(search) for a search by element or by type: the overlays, as a list
\* of references
GetList(h, ovs, cs, search) ==
    IF SearchHasElement(search)
    THEN IF HasContainer(cs, search.element)
         THEN IF search.type # ""
              THEN FilterByType(h, cs[ContainerKey(search.element)].overlays,
                                search.type)
              ELSE cs[ContainerKey(search.element)].overlays
         ELSE <<>>
    ELSE LET keys == SortedKeys(DOMAIN ovs)
         IN  FilterByType(h, [i \in 1..Len(keys) |-> ovs[keys[i]]], search.type)

\* an id that is the name of a property every object inherits, such as
\* 'constructor'
InheritedKey == -1

\* what this._overlays[InheritedKey] answers with: the inherited value, which
\* is truthy and is no overlay
InheritedValue == -1

\* get(search) for a search by id: the reference of the overlay, or NoObj
\* for the falsy answers (undefined, null).  this._overlays is a plain
\* object, so the lookup also finds what the object inherits.
GetSingle(ovs, search) ==
    IF search.id = InheritedKey THEN InheritedValue
    ELSE IF search.id # 0 /\ search.id \in DOMAIN ovs THEN ovs[search.id]
    ELSE NoObj

\* get(search) as remove reads it: this.get(filter) || [], made a list
GetAsList(h, ovs, cs, search) ==
    IF GetIsList(search)
    THEN GetList(h, ovs, cs, search)
    ELSE IF GetSingle(ovs, search) = NoObj
         THEN <<>>
         ELSE <<GetSingle(ovs, search)>>

----------------------------------------------------------------------------
(* remove *)

\* the manager's collections as one record, for the operators that change
\* several of them
State == [heap |-> heap, overlays |-> overlays, containers |-> overlayContainers]

\* a variant of the splice that drops the first entry of the list, whichever
\* overlay is removed
SpliceFirst(list, ref) ==
    IF IndexOf(list, ref) # 0 THEN Tail(list) ELSE list

\* container.overlays.splice(idx, 1) when idx is not -1
SpliceOverlay(list, ref) ==
    IF IndexOf(list, ref) # 0 THEN RemoveAt(list, IndexOf(list, ref)) ELSE list

\* a variant of the forEach body that leaves the overlay in the id->overlay
\* map
RemoveOverlayKeepIndexed(st, ref) ==
    LET ov == st.heap[ref]
        key == ElementId(ov.element)
        hasContainer == ov.element # NoObj /\ key \in DOMAIN st.containers
    IN  [heap |-> [st.heap EXCEPT ![ref].htmlContainer = NoHtmlContainer,
                                  ![ref].element = NoObj],
         overlays |-> st.overlays,
         containers |->
            IF hasContainer
            THEN [st.containers EXCEPT ![key].overlays = SpliceOverlay(@, ref)]
            ELSE st.containers]

\* the body of the forEach of remove for one overlay
RemoveOverlay(st, ref) ==
    LET ov == st.heap[ref]
        key == ElementId(ov.element)
        hasContainer == ov.element # NoObj /\ key \in DOMAIN st.containers
    IN  [heap |-> [st.heap EXCEPT ![ref].htmlContainer = NoHtmlContainer,
                                  ![ref].element = NoObj],
         overlays |-> MapDelete(st.overlays, ov.id),
         containers |->
            IF hasContainer
            THEN [st.containers EXCEPT ![key].overlays = SpliceOverlay(@, ref)]
            ELSE st.containers]

RECURSIVE RemoveEach(_, _)
\* forEach(overlays, ...) of remove
RemoveEach(st, refs) ==
    IF refs = <<>>
    THEN st
    ELSE RemoveEach(RemoveOverlay(st, Head(refs)), Tail(refs))

\* remove(filter)
RemoveFilter(st, search) ==
    RemoveEach(st, GetAsList(st.heap, st.overlays, st.containers, search))

RECURSIVE RemoveEachById(_, _)
\* forEach(overlays, function(o) { self.remove(o.id) }) of the remove
\* integration; ids are the ids of the overlays listed
RemoveEachById(st, ids) ==
    IF ids = <<>>
    THEN st
    ELSE RemoveEachById(RemoveFilter(st, SearchById(Head(ids))), Tail(ids))

\* The overlay objects the manager can still reach: an object whose wrapper
\* has been deleted and that is in no collection is garbage.
Collect(st) ==
    LET reachable ==
            {r \in DOMAIN st.heap :
                \/ st.heap[r].htmlContainer.live
                \/ \E k \in DOMAIN st.overlays : st.overlays[k] = r
                \/ \E c \in DOMAIN st.containers :
                        r \in Range(st.containers[c].overlays)}
    IN  [r \in reachable |-> st.heap[r]]

----------------------------------------------------------------------------
(* add *)

\* ids.next() of util/IdGenerator: the counter after the call, which is also
\* the number the id is built from
IdsNext(counter) == counter + 1

\* if (!element.id) { element = this._elementRegistry.get(element); }
ResolveElement(reg, element) ==
    IF element.kind = "object" /\ ElementId(element.obj) # ""
    THEN element.obj
    ELSE RegistryGet(reg, element)

\* what add throws for its arguments, in the order of its checks; "" when it
\* throws nothing.  Reading element.id of an absent element is a TypeError.
AddError(element, overlay, obj) ==
    IF element.kind = "absent" THEN "TypeError"
    ELSE IF ~IsDef(overlay.position) THEN "Error: must specifiy overlay position"
    ELSE IF ~overlay.html THEN "Error: must specifiy overlay html"
    ELSE IF obj = NoObj THEN "Error: invalid element specified"
    ELSE ""

\* assign({}, this._overlayDefaults, overlay, { id, type, element, html })
AssignOverlay(overlay, id, type, obj) ==
    [id |-> id,
     type |-> type,
     element |-> obj,
     position |-> overlay.position[1],
     show |-> IF overlay.hasShow THEN overlay.show ELSE Some(DefaultShow),
     htmlContainer |-> NoHtmlContainer]

\* a variant of the indexing that stores nothing
IndexOverlayNot(ovs, id, ref) == ovs

\* this._overlays[id] = overlay
IndexOverlay(ovs, id, ref) == MapPut(ovs, id, ref)

\* _addOverlay(overlay); the new object is referred to by the number of its
\* id
AddOverlay(st, els, ov) ==
    LET ref == ov.id
        key == ElementId(ov.element)
        cs == GetOverlayContainer(st.containers, els, ov.element)
        wrapper == [live |-> TRUE, hidden |-> FALSE, left |-> 0, top |-> 0]
        h == MapPut(st.heap, ref, [ov EXCEPT !.htmlContainer = wrapper])
    IN  [heap |-> UpdateOverlay(h, els, ref),
         overlays |-> IndexOverlay(st.overlays, ov.id, ref),
         containers |-> [cs EXCEPT ![key].overlays = Append(@, ref)]]

Op(op, res, id, el) == [op |-> op, res |-> res, id |-> id, el |-> el]

\* the record of the ids that entered and left the id->overlay map while a
\* trailing call was pending; it is kept until the step after the call ran
NothingNoted == [added |-> {}, removed |-> {}]

Noted(noted, before, after) ==
    IF timers = <<>>
    THEN NothingNoted
    ELSE [added |-> noted.added \cup (after \ before),
          removed |-> noted.removed \cup (before \ after)]

\* add(element, type, overlay); type "" is the call add(element, overlay)
Add(element, type, overlay) ==
    LET obj == ResolveElement(registry, element)
        err == AddError(element, overlay, obj)
        id == IdsNext(idsCounter)
        st == AddOverlay(State, elements, AssignOverlay(overlay, id, type, obj))
    IN  /\ IF err # ""
           THEN /\ lastOp' = Op("add", err, 0, NoObj)
                /\ UNCHANGED <<idsCounter, heap, overlays, overlayContainers,
                               issued>>
           ELSE /\ idsCounter' = id
                /\ heap' = st.heap
                /\ overlays' = st.overlays
                /\ overlayContainers' = st.containers
                /\ issued' = Append(issued, id)
                /\ lastOp' = Op("add", "ok", id, obj)
        /\ whilePending' = Noted(whilePending, DOMAIN overlays, DOMAIN overlays')
        /\ UNCHANGED <<overlayRoot, timers, registry, elements, config, quiet,
                       lastViewbox, lastPass, passesSince, rootsSince, burst>>

\* remove(filter).  For a value that is no overlay the forEach body finds no
\* container and then reads overlay.html.remove of an undefined html: a
\* TypeError, before anything is changed.
Remove(search) ==
    LET listed == GetAsList(heap, overlays, overlayContainers, search)
        st == RemoveFilter(State, search)
    IN  /\ IF InheritedValue \in Range(listed)
           THEN /\ lastOp' = Op("remove", "TypeError", search.id, NoObj)
                /\ UNCHANGED <<heap, overlays, overlayContainers>>
           ELSE /\ heap' = Collect(st)
                /\ overlays' = st.overlays
                /\ overlayContainers' = st.containers
                /\ lastOp' = Op("remove", "ok", search.id, NoObj)
        /\ whilePending' = Noted(whilePending, DOMAIN overlays, DOMAIN overlays')
        /\ UNCHANGED <<idsCounter, overlayRoot, timers, registry, elements,
                       config, quiet, issued, lastViewbox, lastPass,
                       passesSince, rootsSince, burst>>

----------------------------------------------------------------------------
(* show / hide and the viewbox update *)

\* the quiet period of debounce(updateViewbox, 300), in milliseconds
DebounceWait == 300

Viewbox(x, y, scale) == [x |-> x, y |-> y, scale |-> scale]

\* a variant of the configuration test that always defers
DeferUpdateAlways(cfg) == TRUE

\* !config || config.deferUpdate !== false
DeferUpdate(cfg) == ~IsDef(cfg) \/ cfg[1].deferUpdate # FALSE

\* the css transform _updateRoot sets: matrix(a,0,0,d,e,f), a and d in
\* tenths, e and f in tenths of a pixel
RootMatrix(viewbox) ==
    LET a == IF viewbox.scale # 0 THEN viewbox.scale ELSE 10
        d == IF viewbox.scale # 0 THEN viewbox.scale ELSE 10
    IN  <<a, 0, 0, d, (-1) * viewbox.x * a, (-1) * viewbox.y * d>>

\* _updateRoot(viewbox)
UpdateRoot(root, viewbox) == [root EXCEPT !.transform = Some(RootMatrix(viewbox))]

\* a variant of the range test that counts the bounds as outside
OutOfRangeOpen(show, scale) ==
    \/ IsDef(show.minZoom) /\ show.minZoom[1] >= scale
    \/ IsDef(show.maxZoom) /\ show.maxZoom[1] <= scale

\* whether _updateOverlayVisibilty hides an overlay of policy show at the
\* given scale
OutOfRange(show, scale) ==
    JsGt(show.minZoom, Some(scale)) \/ JsLt(show.maxZoom, Some(scale))

\* a variant of the pass that walks the id->overlay map as it was when the
\* trailing call was scheduled
UpdateOverlayVisibiltyAsScheduled(h, ovs, viewbox) ==
    [r \in DOMAIN h |->
        IF /\ \E k \in DOMAIN ovs \ whilePending.added : ovs[k] = r
           /\ IsDef(h[r].show)
        THEN [h[r] EXCEPT !.htmlContainer.hidden =
                            OutOfRange(h[r].show[1], viewbox.scale)]
        ELSE h[r]]

\* _updateOverlayVisibilty(viewbox) on the heap h
UpdateOverlayVisibilty(h, ovs, viewbox) ==
    [r \in DOMAIN h |->
        IF (\E k \in DOMAIN ovs : ovs[k] = r) /\ IsDef(h[r].show)
        THEN [h[r] EXCEPT !.htmlContainer.hidden =
                            OutOfRange(h[r].show[1], viewbox.scale)]
        ELSE h[r]]

Bump(n) == IF n < MaxCount THEN n + 1 ELSE n

\* a variant of updateViewbox that does not show the root
UpdateViewboxNoShow(viewbox) ==
    /\ overlayRoot' = UpdateRoot(overlayRoot, viewbox)
    /\ heap' = UpdateOverlayVisibilty(heap, overlays, viewbox)
    /\ lastPass' = Some(viewbox)

\* updateViewbox(viewbox): _updateRoot, _updateOverlayVisibilty, show
UpdateViewbox(viewbox) ==
    /\ overlayRoot' = [UpdateRoot(overlayRoot, viewbox) EXCEPT !.hidden = FALSE]
    /\ heap' = UpdateOverlayVisibilty(heap, overlays, viewbox)
    /\ lastPass' = Some(viewbox)

\* a variant of the debounce that queues every call instead of replacing the
\* pending one
DebouncedQueued(pending, viewbox) ==
    Append(pending, [left |-> DebounceWait, args |-> viewbox])

\* a call of the debounced updateViewbox: the pending trailing call, if any,
\* is replaced by one with the new arguments and a full quiet period
Debounced(pending, viewbox) ==
    << [left |-> DebounceWait, args |-> viewbox] >>

\* the canvas.viewbox.changed handler: hide, then updateViewbox(event.viewbox),
\* which is debounced unless config.deferUpdate is false
ViewboxChanged(viewbox) ==
    /\ lastViewbox' = Some(viewbox)
    /\ quiet' = 0
    /\ lastOp' = Op("canvas.viewbox.changed", "ok", 0, NoObj)
    /\ burst' = IF timers # <<>> THEN Bump(burst) ELSE 1
    /\ whilePending' = IF timers # <<>> THEN whilePending ELSE NothingNoted
    /\ IF DeferUpdate(config)
       THEN /\ overlayRoot' = [overlayRoot EXCEPT !.hidden = TRUE]
            /\ timers' = Debounced(timers, viewbox)
            /\ passesSince' = 0
            /\ rootsSince' = 0
            /\ UNCHANGED <<heap, lastPass>>
       ELSE /\ UpdateViewbox(viewbox)
            /\ passesSince' = 1
            /\ rootsSince' = 1
            /\ UNCHANGED timers
    /\ UNCHANGED <<idsCounter, overlays, overlayContainers, registry, elements,
                   config, issued>>

\* the timer of the debounced update runs out: the trailing call
TimerFire ==
    /\ timers # <<>>
    /\ Head(timers).left = 0
    /\ UpdateViewbox(Head(timers).args)
    /\ passesSince' = Bump(passesSince)
    /\ rootsSince' = Bump(rootsSince)
    /\ timers' = Tail(timers)
    /\ lastOp' = Op("timer", "ok", 0, NoObj)
    /\ UNCHANGED <<idsCounter, overlays, overlayContainers, registry, elements,
                   config, quiet, issued, lastViewbox, burst,
                       whilePending>>

\* time passes, ms milliseconds at most, while a trailing call is pending; a
\* timer that is due runs before more time passes
Tick(ms) ==
    LET elapsed == Min2(ms, Head(timers).left)
    IN  /\ timers # <<>>
        /\ \A i \in 1..Len(timers) : timers[i].left > 0
        /\ timers' = [i \in 1..Len(timers) |->
                        [timers[i] EXCEPT !.left = Max2(@ - elapsed, 0)]]
        /\ quiet' = Min2(quiet + elapsed, DebounceWait)
        /\ lastOp' = Op("tick", "ok", 0, NoObj)
        /\ whilePending' = Noted(whilePending, {}, {})
        /\ UNCHANGED <<idsCounter, heap, overlays, overlayContainers,
                       overlayRoot, registry, elements, config, issued,
                       lastViewbox, lastPass, passesSince, rootsSince, burst>>

\* show()
Show ==
    /\ overlayRoot' = [overlayRoot EXCEPT !.hidden = FALSE]
    /\ lastOp' = Op("other", "ok", 0, NoObj)
    /\ whilePending' = Noted(whilePending, {}, {})
    /\ UNCHANGED <<idsCounter, heap, overlays, overlayContainers, timers,
                   registry, elements, config, quiet, issued, lastViewbox,
                   lastPass, passesSince, rootsSince, burst>>

\* hide()
Hide ==
    /\ overlayRoot' = [overlayRoot EXCEPT !.hidden = TRUE]
    /\ lastOp' = Op("other", "ok", 0, NoObj)
    /\ whilePending' = Noted(whilePending, {}, {})
    /\ UNCHANGED <<idsCounter, heap, overlays, overlayContainers, timers,
                   registry, elements, config, quiet, issued, lastViewbox,
                   lastPass, passesSince, rootsSince, burst>>

----------------------------------------------------------------------------
(* the other event-bus handlers, and the diagram around the manager *)

\* the shape.remove / connection.remove handler for e.element = obj; the
\* canvas, which dispatches the event, then takes the element out of the
\* registry
ShapeRemove(obj) ==
    LET listed == GetList(heap, overlays, overlayContainers,
                          Search(0, ObjArg(obj), ""))
        st == RemoveEachById(State, [i \in 1..Len(listed) |-> heap[listed[i]].id])
    IN  /\ Registered(registry, obj)
        /\ heap' = Collect(st)
        /\ overlays' = st.overlays
        /\ overlayContainers' = st.containers
        /\ registry' = [registry EXCEPT ![ElementId(obj)] = NoObj]
        /\ lastOp' = Op(IF HasWaypoints(elements[obj]) THEN "connection.remove"
                        ELSE "shape.remove", "ok", 0, obj)
        /\ whilePending' = Noted(whilePending, DOMAIN overlays, DOMAIN overlays')
        /\ UNCHANGED <<idsCounter, overlayRoot, timers, elements, config, quiet,
                       issued, lastViewbox, lastPass, passesSince, rootsSince, burst>>

\* the diagram gains an element: the object is registered under its id
ShapeAdd(obj) ==
    /\ registry[ElementId(obj)] = NoObj
    /\ registry' = [registry EXCEPT ![ElementId(obj)] = obj]
    /\ lastOp' = Op("other", "ok", 0, NoObj)
    /\ whilePending' = Noted(whilePending, {}, {})
    /\ UNCHANGED <<idsCounter, heap, overlays, overlayContainers, overlayRoot,
                   timers, elements, config, quiet, issued, lastViewbox,
                   lastPass, passesSince, rootsSince, burst>>

RECURSIVE UpdateOverlays(_, _, _)
\* forEach(container.overlays, function(overlay) { self._updateOverlay(overlay) })
UpdateOverlays(h, els, refs) ==
    IF refs = <<>>
    THEN h
    ELSE UpdateOverlays(UpdateOverlay(h, els, Head(refs)), els, Tail(refs))

\* the body of the element.changed handler for e.element = obj, on the
\* record of heap, overlays and containers
ElementChangedHandler(st, els, obj) ==
    IF HasContainer(st.containers, ObjArg(obj))
    THEN [st EXCEPT
            !.heap = UpdateOverlays(@, els,
                                    st.containers[ElementId(obj)].overlays),
            !.containers[ElementId(obj)] = UpdateOverlayContainer(@, els)]
    ELSE st

\* the diagram gives a registered element the geometry geom (which may be
\* the one it has) and announces element.changed for it; the handler runs
ElementChanged(obj, geom) ==
    LET els == [elements EXCEPT ![obj] = geom]
        st == ElementChangedHandler(State, els, obj)
    IN  /\ Registered(registry, obj)
        /\ elements' = els
        /\ heap' = st.heap
        /\ overlayContainers' = st.containers
        /\ lastOp' = Op("element.changed", "ok", 0, obj)
        /\ whilePending' = Noted(whilePending, {}, {})
        /\ UNCHANGED <<idsCounter, overlays, overlayRoot, timers, registry,
                       config, quiet, issued, lastViewbox, lastPass,
                       passesSince, rootsSince, burst>>

\* the element.marker.update handler for e.element = obj, e.marker, e.add
MarkerUpdate(obj, marker, add) ==
    LET key == ElementId(obj)
    IN  /\ Registered(registry, obj)
        /\ IF HasContainer(overlayContainers, ObjArg(obj))
           THEN overlayContainers' =
                     [overlayContainers EXCEPT
                        ![key].html.markers =
                            IF add THEN @ \cup {marker} ELSE @ \ {marker}]
           ELSE UNCHANGED overlayContainers
        /\ lastOp' = Op("other", "ok", 0, NoObj)
        /\ whilePending' = Noted(whilePending, {}, {})
        /\ UNCHANGED <<idsCounter, heap, overlays, overlayRoot, timers,
                       registry, elements, config, quiet, issued, lastViewbox,
                       lastPass, passesSince, rootsSince, burst>>

----------------------------------------------------------------------------
(* the specifications *)

\* the filters remove is called with
SearchArgsOver(maxIds, elementArgs, typeArgs) ==
    {SearchById(i) : i \in 0..maxIds}
        \cup {Search(0, e, t) : e \in elementArgs \ {AbsentArg}, t \in typeArgs}
        \cup {Search(0, AbsentArg, t) : t \in typeArgs \ {""}}

\* the state after new Overlays(config, eventBus, canvas, elementRegistry),
\* config one of configs, on a diagram that holds the shape 1 and the
\* connection 3
InitOver(configs) ==
    /\ idsCounter = 0
    /\ heap = EmptyMap
    /\ overlays = EmptyMap
    /\ overlayContainers = EmptyMap
    /\ overlayRoot = [hidden |-> FALSE, transform |-> Undefined]
    /\ timers = <<>>
    /\ registry = [k \in ElemIds |-> IF k = "a" THEN 1 ELSE 3]
    /\ elements = InitElements
    /\ config \in configs
    /\ lastOp = Op("new", "ok", 0, NoObj)
    /\ quiet = 0
    /\ issued = <<>>
    /\ lastViewbox = Undefined
    /\ lastPass = Undefined
    /\ passesSince = 0
    /\ rootsSince = 0
    /\ burst = 0
    /\ whilePending = NothingNoted

\* add, for as long as fewer than maxIds ids have been issued
AddUpTo(maxIds, element, type, overlay) ==
    Add(element, type, overlay) /\ idsCounter' <= maxIds

\* the geometries the diagram gives an element
Geoms(obj) ==
    CASE obj = 1 -> {ShapeSmall, ShapeLarge}
      [] obj = 2 -> {ShapeLarge}
      [] OTHER -> {ConnectionShort, ConnectionLong}

\* SpecLife: the life cycle of overlays, in a manager built with
\* deferUpdate: false.  Every kind of element argument, elements that come
\* and go, one viewbox, no geometry change.
ElementArgsLife == ElementArgs

OverlayArgsLife == {OvDefault, OvNoPosition, OvNoHtml, OvNeither}

SearchArgsLife ==
    SearchArgsOver(MaxIdsLife, ElementArgsLife, {""})
        \cup {SearchById(InheritedKey)}

InitLife == InitOver({Some([deferUpdate |-> FALSE])})

NextLife ==
    \/ \E e \in ElementArgsLife, o \in OverlayArgsLife :
            AddUpTo(MaxIdsLife, e, "", o)
    \/ \E f \in SearchArgsLife : Remove(f)
    \/ \E obj \in ElemObjs : ShapeRemove(obj)
    \/ \E obj \in ElemObjs : ShapeAdd(obj)
    \/ ElementChanged(1, elements[1])
    \/ \E a \in BOOLEAN : MarkerUpdate(3, "selected", a)
    \/ ViewboxChanged(Viewbox(10, 0, 10))

SpecLife == InitLife /\ [][NextLife]_vars

\* SpecOrder: the order of the overlays of a container, in a manager built
\* with deferUpdate: false.  More overlays, of two types, on a shape that
\* stays and a connection that comes and goes.
ElementArgsOrder == {ObjArg(1), StrArg("b")}

TypeArgsOrder == {"", "badge"}

InitOrder == InitOver({Some([deferUpdate |-> FALSE])})

NextOrder ==
    \/ \E e \in ElementArgsOrder, t \in TypeArgsOrder :
            AddUpTo(MaxIdsOrder, e, t, OvDefault)
    \/ \E f \in SearchArgsOver(MaxIdsOrder, ElementArgsOrder, TypeArgsOrder) :
            Remove(f)
    \/ ShapeRemove(3)
    \/ ShapeAdd(3)
    \/ ElementChanged(1, elements[1])
    \/ ViewboxChanged(Viewbox(10, 0, 10))

SpecOrder == InitOrder /\ [][NextOrder]_vars

\* SpecView: the viewbox update.  Both configurations, a clock of half a
\* quiet period, overlays of every show policy on one shape, and viewboxes
\* whose scales lie below, on the bounds of, and above the ranges.
OverlayArgsView == {OvAuto, OvManual, OvNoShow, OvNoPosition}

ViewboxesView ==
    {Viewbox(0, 0, 5), Viewbox(0, 20, 20), Viewbox(10, 20, 60)}

InitView == InitOver({Undefined, Some([deferUpdate |-> FALSE])})

NextView ==
    \/ \E o \in OverlayArgsView : AddUpTo(MaxIdsView, ObjArg(1), "", o)
    \/ \E f \in SearchArgsOver(MaxIdsView, {ObjArg(1)}, {""}) : Remove(f)
    \/ \E v \in ViewboxesView : ViewboxChanged(v)
    \/ TimerFire
    \/ Tick(150)
    \/ Show
    \/ Hide

SpecView == InitView /\ [][NextView]_vars

\* SpecViewLive: SpecView with bursts of at most MaxCount viewbox events,
\* a clock that keeps running while a trailing call is pending, and a timer
\* that fires when it is due.
NextViewLive ==
    \/ \E o \in OverlayArgsView : AddUpTo(MaxIdsView, ObjArg(1), "", o)
    \/ \E f \in SearchArgsOver(MaxIdsView, {ObjArg(1)}, {""}) : Remove(f)
    \/ \E v \in ViewboxesView :
            (timers = <<>> \/ burst < MaxCount) /\ ViewboxChanged(v)
    \/ TimerFire
    \/ Tick(150)
    \/ Show
    \/ Hide

SpecViewLive ==
    /\ InitView
    /\ [][NextViewLive]_vars
    /\ WF_vars(Tick(150))
    /\ WF_vars(TimerFire)

\* SpecGeom: positioning, in a manager built with deferUpdate: false (which
\* never sets a timer).  Elements that move and resize, overlays placed by
\* right and by bottom, two shapes of one id that replace each other.
ElementArgsGeom == {ObjArg(1), ObjArg(2), ObjArg(3)}

OverlayArgsGeom == {OvDefault, OvAuto}

InitGeom == InitOver({Some([deferUpdate |-> FALSE])})

NextGeom ==
    \/ \E e \in ElementArgsGeom, o \in OverlayArgsGeom :
            AddUpTo(MaxIdsGeom, e, "", o)
    \/ \E f \in SearchArgsOver(MaxIdsGeom, ElementArgsGeom, {""}) : Remove(f)
    \/ \E obj \in {1, 2} : ShapeRemove(obj)
    \/ \E obj \in {1, 2} : ShapeAdd(obj)
    \/ \E obj \in ElemObjs : \E g \in Geoms(obj) : ElementChanged(obj, g)
    \/ \E a \in BOOLEAN : MarkerUpdate(2, "selected", a)
    \/ ViewboxChanged(Viewbox(10, 0, 10))

SpecGeom == InitGeom /\ [][NextGeom]_vars

\* SpecShow: the show policy, in a manager built with deferUpdate: false.
\* Overlays with every kind of show record on one shape, and viewboxes whose
\* scales lie below, inside and above the ranges.
OverlayArgsShow == {OvDefault, OvAuto, OvManual, OvPartial, OvNoShow}

InitShow == InitOver({Some([deferUpdate |-> FALSE])})

NextShow ==
    \/ \E o \in OverlayArgsShow : AddUpTo(MaxIdsShow, ObjArg(1), "", o)
    \/ \E i \in 1..MaxIdsShow : Remove(SearchById(i))
    \/ \E v \in ViewboxesView : ViewboxChanged(v)

SpecShow == InitShow /\ [][NextShow]_vars

\* SpecPass: the deferred update among changes of the id->overlay map.
\* Overlays on one shape that come and go by add, remove and shape.remove
\* while a trailing call is pending, and viewboxes whose scales lie below
\* and inside the ranges.
OverlayArgsPass == {OvAuto, OvManual}

ViewboxesPass == {Viewbox(0, 0, 5), Viewbox(0, 20, 20)}

InitPass == InitOver({Undefined})

NextPass ==
    \/ \E o \in OverlayArgsPass : AddUpTo(MaxIdsPass, ObjArg(1), "", o)
    \/ \E f \in SearchArgsOver(MaxIdsPass, {ObjArg(1)}, {""}) : Remove(f)
    \/ ShapeRemove(1)
    \/ ShapeAdd(1)
    \/ \E v \in ViewboxesPass : ViewboxChanged(v)
    \/ TimerFire
    \/ Tick(DebounceWait)

SpecPass == InitPass /\ [][NextPass]_vars

----------------------------------------------------------------------------
(* Properties of add *)

\* the messages of the errors add throws on purpose
ValidationErrors ==
    {"Error: must specifiy overlay position",
     "Error: must specifiy overlay html",
     "Error: invalid element specified"}

\* C1: every successful add returns an id that no earlier add has returned
\* (the ids of removed overlays included), and get(id) right after the add
\* answers with the overlay just added: the live object of that id, on the
\* element the add resolved.
AddReturnsFreshIdOfAddedOverlay ==
    /\ \A i, j \in 1..Len(issued) : i # j => issued[i] # issued[j]
    /\ (lastOp.op = "add" /\ lastOp.res = "ok") =>
            LET ref == GetSingle(overlays, SearchById(lastOp.id))
            IN  /\ issued # <<>>
                /\ issued[Len(issued)] = lastOp.id
                /\ ref # NoObj
                /\ ref \in DOMAIN heap
                /\ heap[ref].id = lastOp.id
                /\ heap[ref].element = lastOp.el
                /\ heap[ref].htmlContainer.live

\* an add has just succeeded after an earlier overlay was removed
AddAfterRemoveWitness ==
    /\ lastOp.op = "add"
    /\ lastOp.res = "ok"
    /\ Len(issued) = 2
    /\ issued[1] \notin DOMAIN overlays

\* C2: add with an overlay that has no position or no html throws one of the
\* validation errors and leaves the id->overlay map, the containers with
\* their lists and the id counter as they were.
AddWithoutPositionOrHtmlFails ==
    [][\A e \in ElementArgsLife : \A o \in {OvNoPosition, OvNoHtml, OvNeither} :
            Add(e, "", o) =>
                /\ lastOp'.res \in ValidationErrors
                /\ UNCHANGED <<overlays, overlayContainers, idsCounter>>]_vars

\* C3: add with an element argument that does not resolve to an element of
\* the registry throws a validation error and leaves the id->overlay map and
\* the containers as they were.
AddUnresolvedElementFails ==
    [][\A e \in ElementArgsLife : \A o \in OverlayArgsLife :
            (Add(e, "", o) /\ RegistryGet(registry, e) = NoObj) =>
                /\ lastOp'.res \in ValidationErrors
                /\ UNCHANGED <<overlays, overlayContainers>>]_vars

----------------------------------------------------------------------------
(* Properties of remove *)

\* a list without the entries equal to ref, the others in their order
Without(list, ref) ==
    LET Other(r) == r # ref
    IN  SelectSeq(list, Other)

\* C4: after remove(id) of an overlay that is in the id->overlay map, get(id)
\* is falsy, the overlay is not in the list of the container of the element
\* it was on, and that list holds the other overlays it held, in the order
\* they had.
RemoveByIdDropsTheOverlayOnly ==
    [][\A i \in 1..MaxIdsOrder :
            (Remove(SearchById(i)) /\ i \in DOMAIN overlays) =>
                LET ref == overlays[i]
                    key == ElementId(heap[ref].element)
                IN  /\ GetSingle(overlays', SearchById(i)) = NoObj
                    /\ key \in DOMAIN overlayContainers'
                    /\ ref \notin Range(overlayContainers'[key].overlays)
                    /\ overlayContainers'[key].overlays =
                            Without(overlayContainers[key].overlays, ref)]_vars

\* remove(2) has taken the second of three overlays out of a list
RemoveMiddleWitness ==
    /\ lastOp.op = "remove"
    /\ lastOp.id = 2
    /\ 2 \notin DOMAIN overlays
    /\ \E k \in DOMAIN overlayContainers :
            overlayContainers[k].overlays = <<1, 3>>

\* C5: the shape.remove / connection.remove handler for element E leaves
\* get({ element: E }) empty and no overlay of the id->overlay map on E, and
\* leaves the overlays on other elements in the map, in their lists and as
\* they were.
ShapeRemoveRemovesOverlaysOfTheElementOnly ==
    [][\A obj \in ElemObjs :
            ShapeRemove(obj) =>
                /\ GetList(heap', overlays', overlayContainers',
                           Search(0, ObjArg(obj), "")) = <<>>
                /\ \A k \in DOMAIN overlays' : heap'[overlays'[k]].element # obj
                /\ \A k \in DOMAIN overlays :
                        heap[overlays[k]].element # obj =>
                            /\ k \in DOMAIN overlays'
                            /\ overlays'[k] = overlays[k]
                            /\ heap'[overlays'[k]] = heap[overlays[k]]]_vars

----------------------------------------------------------------------------
(* Properties of the viewbox update *)

\* the manager was built with { deferUpdate: false }
ConfiguredSynchronous == config = Some([deferUpdate |-> FALSE])

\* the manager was built without a configuration
ConfiguredByDefault == config = Undefined

\* the last step ran updateViewbox: the timer of the debounced update fired,
\* or the handler ran it itself because config.deferUpdate is false
PassJustRan ==
    \/ lastOp.op = "timer"
    \/ lastOp.op = "canvas.viewbox.changed" /\ ConfiguredSynchronous

\* C6: with deferUpdate at its default, at most one deferred update is
\* pending; while one is pending it carries the viewbox of the last event
\* and no visibility pass has run since that event; a pass runs only after a
\* full quiet period; and once nothing is pending exactly one pass has run
\* since the last event, with that event's viewbox.
DebouncedUpdateRunsOncePerBurst ==
    ConfiguredByDefault =>
        /\ Len(timers) <= 1
        /\ timers # <<>> =>
                /\ IsDef(lastViewbox)
                /\ timers[1].args = lastViewbox[1]
                /\ passesSince = 0
        /\ (timers = <<>> /\ IsDef(lastViewbox)) =>
                /\ passesSince = 1
                /\ lastPass = lastViewbox
        /\ lastOp.op = "timer" => quiet >= DebounceWait

\* the pass of a burst of several events has just run
BurstPassWitness ==
    /\ ConfiguredByDefault
    /\ lastOp.op = "timer"
    /\ burst >= 2
    /\ passesSince = 1
    /\ lastPass = lastViewbox

\* C7: with deferUpdate false nothing is ever pending, and after a
\* canvas.viewbox.changed event exactly one _updateRoot and one visibility
\* pass have run, both with the viewbox of that event.
SynchronousUpdateRunsInTheHandler ==
    ConfiguredSynchronous =>
        /\ timers = <<>>
        /\ IsDef(lastViewbox) =>
                LET v == lastViewbox[1]
                IN  /\ passesSince = 1
                    /\ rootsSince = 1
                    /\ lastPass = lastViewbox
                    /\ overlayRoot.transform =
                            Some(<<v.scale, 0, 0, v.scale,
                                   0 - v.x * v.scale, 0 - v.y * v.scale>>)

\* a viewbox event has been handled synchronously while overlays exist
SynchronousEventWitness ==
    /\ ConfiguredSynchronous
    /\ lastOp.op = "canvas.viewbox.changed"
    /\ lastViewbox = Some(Viewbox(10, 20, 60))
    /\ overlayRoot.transform = Some(<<60, 0, 0, 60, -600, -1200>>)
    /\ DOMAIN overlays # {}

\* C8: right after a visibility pass at scale s every overlay of the
\* id->overlay map that has a show policy is hidden if s < minZoom or
\* s > maxZoom and shown otherwise, minZoom and maxZoom counting as inside.
PassHidesExactlyOutsideTheRange ==
    PassJustRan =>
        \A k \in DOMAIN overlays :
            LET ov == heap[overlays[k]]
                s == lastPass[1].scale
            IN  IsDef(ov.show) =>
                    (ov.htmlContainer.hidden <=>
                        \/ IsDef(ov.show[1].minZoom) /\ s < ov.show[1].minZoom[1]
                        \/ IsDef(ov.show[1].maxZoom) /\ s > ov.show[1].maxZoom[1])

\* a pass at the upper bound of an overlay's range has left it shown
PassAtBoundWitness ==
    /\ PassJustRan
    /\ lastPass = Some(Viewbox(0, 20, 20))
    /\ \E k \in DOMAIN overlays :
            /\ IsDef(heap[overlays[k]].show)
            /\ heap[overlays[k]].show[1].maxZoom = Some(20)
            /\ ~heap[overlays[k]].htmlContainer.hidden

\* C9: no visibility pass changes the shown / hidden state of an overlay
\* whose show.trigger is 'manual'.
PassLeavesManualOverlaysAlone ==
    [][(TimerFire \/ \E v \in ViewboxesView : ViewboxChanged(v)) =>
            \A k \in DOMAIN overlays :
                LET r == overlays[k]
                IN  (IsDef(heap[r].show) /\ heap[r].show[1].trigger = "manual") =>
                        heap'[r].htmlContainer.hidden = heap[r].htmlContainer.hidden]_vars

----------------------------------------------------------------------------
(* Properties of the positioning *)

\* C10: right after the add of an overlay, and right after an
\* element.changed event for its element, the left offset of the wrapper of
\* an overlay on a shape is width - position.right when right is given, else
\* position.left, else 0; and its top offset is height - position.bottom
\* when bottom is given, else position.top, else 0; width and height being
\* those the shape has then.
OffsetsFollowTheElementSize ==
    \A k \in DOMAIN overlays :
        LET ov == heap[overlays[k]]
            e == elements[ov.element]
            added == lastOp.op = "add" /\ lastOp.res = "ok" /\ lastOp.id = k
            changed == lastOp.op = "element.changed" /\ lastOp.el = ov.element
        IN  ((added \/ changed) /\ ~HasWaypoints(e)) =>
                /\ ov.htmlContainer.left =
                        IF IsDef(ov.position.right)
                        THEN e.width - ov.position.right[1]
                        ELSE IF IsDef(ov.position.left)
                             THEN ov.position.left[1]
                             ELSE 0
                /\ ov.htmlContainer.top =
                        IF IsDef(ov.position.bottom)
                        THEN e.height - ov.position.bottom[1]
                        ELSE IF IsDef(ov.position.top)
                             THEN ov.position.top[1]
                             ELSE 0

\* shape 1 has grown from width 100 to 120 and the overlay placed by
\* right: 10 has moved to the left offset 110, its top offset being 0
OffsetsAfterResizeWitness ==
    /\ lastOp.op = "element.changed"
    /\ lastOp.el = 1
    /\ elements[1] = ShapeLarge
    /\ \E k \in DOMAIN overlays :
            /\ heap[overlays[k]].element = 1
            /\ heap[overlays[k]].position = PosRight
            /\ heap[overlays[k]].htmlContainer.left = 110
            /\ heap[overlays[k]].htmlContainer.top = 0

----------------------------------------------------------------------------
(* Properties of get *)

\* the overlays of the id->overlay map that are on the element object obj
\* and, when type is not "", of that type, in the order of their insertion
AttachedTo(obj, type) ==
    LET keys == SortedKeys({k \in DOMAIN overlays :
                               /\ heap[overlays[k]].element = obj
                               /\ type = "" \/ heap[overlays[k]].type = type})
    IN  [i \in 1..Len(keys) |-> overlays[keys[i]]]

\* C11: for an element E of the diagram, get({ element: E, type: T }) is the
\* list of the overlays attached to E whose type is T, and get({ element: E })
\* the list of all overlays attached to E, both in the order in which the
\* overlays were added.
GetByElementListsTheAttachedOverlays ==
    \A obj \in ElemObjs : \A type \in {"", "badge", "note"} :
        Registered(registry, obj) =>
            GetList(heap, overlays, overlayContainers,
                    Search(0, ObjArg(obj), type)) = AttachedTo(obj, type)

\* whether the filter names a target the manager does not know: an id that
\* is not in the id->overlay map, or an element that has no container
UnknownTarget(f) ==
    IF SearchHasElement(f)
    THEN ~HasContainer(overlayContainers, f.element)
    ELSE f.type = "" /\ f.id # 0 /\ f.id \notin DOMAIN overlays

\* C12: for an unknown id or an element without a container get answers
\* with a falsy value or an empty list, and remove completes without a
\* failure and leaves the id->overlay map and the containers with their lists
\* as they were; and for every filter a second remove changes nothing that
\* the first has left.
UnknownTargetsAreNoOps ==
    [][\A f \in SearchArgsLife :
            /\ (Remove(f) /\ UnknownTarget(f)) =>
                    /\ GetAsList(heap, overlays, overlayContainers, f) = <<>>
                    /\ lastOp'.res = "ok"
                    /\ UNCHANGED <<overlays, overlayContainers>>
            /\ f.id # InheritedKey =>
                    RemoveFilter(RemoveFilter(State, f), f) =
                        RemoveFilter(State, f)]_vars

----------------------------------------------------------------------------
(* Invariants of the collections *)

\* the places (container, index) at which the overlay ref is listed
ListedAt(ref) ==
    UNION {{<<c, i>> : i \in {j \in 1..Len(overlayContainers[c].overlays) :
                                    overlayContainers[c].overlays[j] = ref}} :
           c \in DOMAIN overlayContainers}

\* C13: every overlay with a live htmlContainer is listed by exactly one
\* container, exactly once, and is the value under its id in the id->overlay
\* map; and every overlay in the map or in a list has a live htmlContainer.
LiveOverlaysAreIndexedAndListedOnce ==
    /\ \A r \in DOMAIN heap :
            heap[r].htmlContainer.live =>
                /\ Cardinality(ListedAt(r)) = 1
                /\ heap[r].id \in DOMAIN overlays
                /\ overlays[heap[r].id] = r
    /\ \A k \in DOMAIN overlays :
            /\ overlays[k] \in DOMAIN heap
            /\ heap[overlays[k]].htmlContainer.live
    /\ \A c \in DOMAIN overlayContainers :
            \A i \in 1..Len(overlayContainers[c].overlays) :
                /\ overlayContainers[c].overlays[i] \in DOMAIN heap
                /\ heap[overlayContainers[c].overlays[i]].htmlContainer.live

\* one overlay has been removed and another is live, indexed and listed
LiveNextToRemovedWitness ==
    /\ Len(issued) = 2
    /\ Cardinality(DOMAIN overlays) = 1
    /\ \E r \in DOMAIN heap :
            /\ heap[r].htmlContainer.live
            /\ Cardinality(ListedAt(r)) = 1
    /\ lastOp.op = "remove"

\* the step just taken was a successful add that targeted the element obj
AddSucceededFor(obj) ==
    /\ lastOp'.op = "add"
    /\ lastOp'.res = "ok"
    /\ lastOp'.el = obj

\* C14: no container exists at first, and after every step a container for
\* an element E of the diagram exists exactly if one existed before the step
\* or the step was a successful add targeting E; so containers are created
\* by the first successful add for their element, by nothing else, and are
\* never destroyed.
ContainerExistsIffAddSucceeded ==
    [][\A obj \in ElemObjs :
            Registered(registry', obj) =>
                (HasContainer(overlayContainers', ObjArg(obj)) <=>
                    \/ HasContainer(overlayContainers, ObjArg(obj))
                    \/ AddSucceededFor(obj))]_vars

----------------------------------------------------------------------------
(* Properties of the show policy *)

\* the show policy add is to store for the overlay configuration o: field by
\* field the caller's value where the caller gave one, the default elsewhere
CompleteShow(o) ==
    LET given == o.hasShow /\ IsDef(o.show)
    IN  ShowPolicy(
            IF given /\ o.show[1].trigger # "undefined"
            THEN o.show[1].trigger ELSE DefaultShow.trigger,
            IF given /\ IsDef(o.show[1].minZoom)
            THEN o.show[1].minZoom ELSE DefaultShow.minZoom,
            IF given /\ IsDef(o.show[1].maxZoom)
            THEN o.show[1].maxZoom ELSE DefaultShow.maxZoom)

\* C15: the overlay a successful add stores has a complete show policy, with
\* the caller's trigger, minZoom and maxZoom where given and the defaults
\* ('automatic', 0.7, 5.0) elsewhere, and has the id add returns and the
\* element add resolved.
AddStoresACompleteShowPolicy ==
    [][\A o \in OverlayArgsShow :
            (Add(ObjArg(1), "", o) /\ lastOp'.res = "ok") =>
                LET ov == heap'[overlays'[lastOp'.id]]
                IN  /\ ov.show = Some(CompleteShow(o))
                    /\ ov.id = lastOp'.id
                    /\ ov.element = 1
                    /\ ov.type = ""]_vars

\* C16: once a viewbox change has been reconciled and no deferred update is
\* pending, every overlay of the id->overlay map with an automatic show
\* policy is hidden exactly if the scale of the viewbox reported last lies
\* outside its range, whether it was added before or after that report.
AutomaticOverlaysFollowTheLastScale ==
    (IsDef(lastPass) /\ timers = <<>>) =>
        \A k \in DOMAIN overlays :
            LET ov == heap[overlays[k]]
                s == lastViewbox[1].scale
            IN  (IsDef(ov.show) /\ ov.show[1].trigger = "automatic") =>
                    (ov.htmlContainer.hidden <=>
                        \/ IsDef(ov.show[1].minZoom) /\ s < ov.show[1].minZoom[1]
                        \/ IsDef(ov.show[1].maxZoom) /\ s > ov.show[1].maxZoom[1])

\* the (x, y) a container is to be anchored at for an element of geometry e
OriginOf(e) ==
    IF HasWaypoints(e)
    THEN [left |-> GetBBox(e).x, top |-> GetBBox(e).y]
    ELSE [left |-> e.x, top |-> e.y]

\* the offsets an overlay at `position` is to have on an element of geometry e
OffsetsOn(position, e) ==
    LET w == IF HasWaypoints(e) THEN GetBBox(e).width ELSE e.width
        h == IF HasWaypoints(e) THEN GetBBox(e).height ELSE e.height
    IN  [left |-> IF IsDef(position.right) THEN w - position.right[1]
                  ELSE IF IsDef(position.left) THEN position.left[1] ELSE 0,
         top |-> IF IsDef(position.bottom) THEN h - position.bottom[1]
                 ELSE IF IsDef(position.top) THEN position.top[1] ELSE 0]

\* C17: an element.changed event for an element E that has a container
\* leaves the container anchored at the current (x, y) of E (of its bounding
\* box when E has waypoints) and every overlay of the container at the
\* offsets its position gives on the current size of E, and leaves the other
\* containers and their overlays, the id->overlay map and all lists as they
\* were; for an element without a container it changes nothing.
ElementChangedRepositionsItsContainerOnly ==
    [][\A obj \in ElemObjs : \A g \in Geoms(obj) :
            ElementChanged(obj, g) =>
                IF HasContainer(overlayContainers, ObjArg(obj))
                THEN LET key == ElementId(obj)
                         c == overlayContainers'[key]
                     IN  /\ c.html.left = OriginOf(g).left
                         /\ c.html.top = OriginOf(g).top
                         /\ \A r \in Range(c.overlays) :
                                /\ heap'[r].htmlContainer.left =
                                        OffsetsOn(heap'[r].position, g).left
                                /\ heap'[r].htmlContainer.top =
                                        OffsetsOn(heap'[r].position, g).top
                         /\ overlays' = overlays
                         /\ DOMAIN overlayContainers' = DOMAIN overlayContainers
                         /\ c.overlays = overlayContainers[key].overlays
                         /\ \A k \in DOMAIN overlayContainers \ {key} :
                                /\ overlayContainers'[k] = overlayContainers[k]
                                /\ \A r \in Range(overlayContainers[k].overlays) :
                                        heap'[r] = heap[r]
                ELSE UNCHANGED <<heap, overlays, overlayContainers>>]_vars

\* nothing is pending, the root is shown, and the root transform and the
\* visibility of every overlay with a show policy are those of the viewbox
\* reported last
Reconciled ==
    /\ timers = <<>>
    /\ IsDef(lastViewbox)
    /\ lastPass = lastViewbox
    /\ ~overlayRoot.hidden
    /\ LET v == lastViewbox[1]
       IN  overlayRoot.transform =
               Some(<<v.scale, 0, 0, v.scale,
                      0 - v.x * v.scale, 0 - v.y * v.scale>>)
    /\ \A k \in DOMAIN overlays :
           LET ov == heap[overlays[k]]
               s == lastViewbox[1].scale
           IN  IsDef(ov.show) =>
                   (ov.htmlContainer.hidden <=>
                       \/ IsDef(ov.show[1].minZoom) /\ s < ov.show[1].minZoom[1]
                       \/ IsDef(ov.show[1].maxZoom) /\ s > ov.show[1].maxZoom[1])

\* C18: a canvas.viewbox.changed event whose update is deferred leaves the
\* root hidden; while the update is pending the root stays hidden in every
\* step other than show(); and every pending update leads to a state in
\* which the root transform and the last pass are those of the viewbox
\* reported last and the root is shown, whatever hide() calls came before.
ViewboxChangeHidesUntilReconciled ==
    /\ [][/\ (lastOp'.op = "canvas.viewbox.changed" /\ timers' # <<>>) =>
                overlayRoot'.hidden
          /\ (timers # <<>> /\ timers' # <<>> /\ overlayRoot.hidden
                /\ lastOp'.op # "other") => overlayRoot'.hidden]_vars
    /\ (timers # <<>>) ~> Reconciled

\* the deferred update has run after a hide() call and has shown the root
ReconciledAfterHideWitness ==
    /\ lastOp.op = "timer"
    /\ Reconciled
    /\ burst >= 2
    /\ DOMAIN overlays # {}

(* Properties of the deferred pass *)

\* C19: the pass that runs when the timer fires acts on exactly the overlays
\* that are in the id->overlay map at that moment: every such overlay with a
\* show policy still has its wrapper and is hidden or shown by the scale of
\* the deferred viewbox, overlays added while the call was pending included;
\* no other overlay object is touched, and no overlay removed while the call
\* was pending is in the map or changed by the pass.
PassActsOnTheMapAtFiringTime ==
    [][lastOp'.op = "timer" =>
        LET s == Head(timers).args.scale
            walked == {r \in DOMAIN heap :
                         /\ \E k \in DOMAIN overlays : overlays[k] = r
                         /\ IsDef(heap[r].show)}
            Outside(show) ==
                \/ IsDef(show.minZoom) /\ s < show.minZoom[1]
                \/ IsDef(show.maxZoom) /\ s > show.maxZoom[1]
        IN  /\ overlays' = overlays
            /\ DOMAIN heap' = DOMAIN heap
            /\ \A r \in walked :
                   /\ heap[r].htmlContainer.live
                   /\ heap'[r] = [heap[r] EXCEPT !.htmlContainer.hidden =
                                                    Outside(heap[r].show[1])]
            /\ \A r \in DOMAIN heap \ walked : heap'[r] = heap[r]
            /\ \A k \in whilePending.added \cap DOMAIN overlays :
                   overlays[k] \in walked
            /\ \A k \in whilePending.removed :
                   /\ k \notin DOMAIN overlays
                   /\ \A r \in DOMAIN heap :
                          heap[r].id = k => heap'[r] = heap[r]]_vars

\* the pass has just hidden an overlay that was added while the call was
\* pending, after another overlay was removed while it was pending
PassAfterAddAndRemoveWitness ==
    /\ lastOp.op = "timer"
    /\ whilePending.removed # {}
    /\ \E k \in whilePending.added \cap DOMAIN overlays :
           heap[overlays[k]].htmlContainer.hidden

(* Invariants of the containers *)

\* C20: every overlay in the list of a container is attached to the element
\* object the container was created for, so that the anchor of the container
\* and the offsets of its overlays are computed from the same element.
OverlaysShareTheElementOfTheirContainer ==
    \A c \in DOMAIN overlayContainers :
        \A r \in Range(overlayContainers[c].overlays) :
            heap[r].element = overlayContainers[c].element

====
